---- MODULE Spec2Model ----
(***************************************************************************)
(* Reaction-role bot (src/main.py): the createrole slash command, the      *)
(* reaction-mapping store and the two raw reaction event handlers.         *)
(*                                                                         *)
(* Text is modelled as a sequence of tokens (each token a string); the     *)
(* string operations of the source (strip, split, the two regular          *)
(* expressions, isdigit, int, str) are computed on those tokens.           *)
(***************************************************************************)
EXTENDS Integers, Sequences, FiniteSets, TLC

(***************************************************************************)
(* Bounds of the model.                                                    *)
(***************************************************************************)
MaxInv == 1
MaxMore == 1
MaxEvents == 3
MaxQueue == 2
MaxEnv == 1

(***************************************************************************)
(* The guild: users, roles, emojis, messages.                              *)
(***************************************************************************)
BotUser == "bot"
Users == {"bot", "u1", "u2"}
RoleIds == {10, 20}
RoleNameOf == [r \in RoleIds |-> IF r = 10 THEN "Member" ELSE "Gamer"]
GuildEmojiIds == {7}
GuildId == "G"
ChannelId == "C"

(***************************************************************************)
(* Text helpers.                                                           *)
(***************************************************************************)
DigitToks == {"10", "20", "30", "7", "8", "0"}
NameToks == {"cool", "gone", "Member", "member", "Gamer", "Nobody"}
Spaces == {" "}

IntTable == [d \in DigitToks |->
               CASE d = "10" -> 10 [] d = "20" -> 20 [] d = "30" -> 30
                 [] d = "7" -> 7 [] d = "8" -> 8 [] OTHER -> 0]

\* int(s) for a decimal text
IntOf(d) == IntTable[d]

DigitChars == <<"0", "1", "2", "3", "4", "5", "6", "7", "8", "9">>

RECURSIVE StrOf(_)
\* str(n) for a natural number
StrOf(n) == IF n < 10 THEN DigitChars[n + 1]
            ELSE StrOf(n \div 10) \o DigitChars[(n % 10) + 1]

LowerTable == [s \in NameToks |->
                 CASE s = "Member" -> "member" [] s = "Gamer" -> "gamer" [] OTHER -> s]

\* str.lower()
Lower(s) == IF s \in NameToks THEN LowerTable[s] ELSE s

RECURSIVE Join(_)
\* the text a token sequence spells
Join(s) == IF s = <<>> THEN "" ELSE Head(s) \o Join(Tail(s))

RECURSIVE LStrip(_)
LStrip(s) == IF s # <<>> /\ Head(s) \in Spaces THEN LStrip(Tail(s)) ELSE s

RECURSIVE RStrip(_)
RStrip(s) == IF s # <<>> /\ s[Len(s)] \in Spaces
             THEN RStrip(SubSeq(s, 1, Len(s) - 1)) ELSE s

\* str.strip()
Strip(s) == RStrip(LStrip(s))

\* index of the first token of s in set T, 0 when there is none
FirstIn(s, T) == IF \E i \in 1..Len(s) : s[i] \in T
                 THEN CHOOSE i \in 1..Len(s) :
                        s[i] \in T /\ \A j \in 1..(i - 1) : s[j] \notin T
                 ELSE 0

RECURSIVE SplitOn(_, _)
\* re.split(r",|\n", s): the pieces between separators
SplitOn(s, T) ==
    LET i == FirstIn(s, T)
    IN IF i = 0 THEN <<s>>
       ELSE <<SubSeq(s, 1, i - 1)>> \o SplitOn(SubSeq(s, i + 1, Len(s)), T)

(***************************************************************************)
(* EMOJI_RE, normalize_emoji_key, emoji_key_from_payload.                  *)
(***************************************************************************)
\* ^<a?:[A-Za-z0-9_~]+:(\d+)>$
EmojiReMatches(s) ==
    /\ Len(s) = 5
    /\ s[1] \in {"<:", "<a:"}
    /\ s[2] \in NameToks \cup DigitToks
    /\ s[3] = ":"
    /\ s[4] \in DigitToks
    /\ s[5] = ">"

\* a normalisation whose pattern lacks the "a?" of animated emojis
normalize_emoji_key_StaticOnly(s0) ==
    LET s == Strip(s0)
    IN IF EmojiReMatches(s) /\ s[1] = "<:" THEN "e:" \o s[4] ELSE Join(s)

normalize_emoji_key(s0) ==
    LET s == Strip(s0)
    IN IF EmojiReMatches(s) THEN "e:" \o s[4] ELSE Join(s)

\* a key taken from the emoji's name alone
emoji_key_from_payload_ByName(e) == e.name

\* a payload emoji is [id |-> number or 0 for none, name |-> text]
emoji_key_from_payload(e) ==
    IF e.id # 0 THEN "e:" \o StrOf(e.id) ELSE e.name

(***************************************************************************)
(* parse_pairs.                                                            *)
(***************************************************************************)
RECURSIVE Pow10(_)
Pow10(k) == IF k = 0 THEN 1 ELSE 10 * Pow10(k - 1)

RECURSIVE IntOfSeq(_)
\* int(s) for a text made of several digit tokens
IntOfSeq(s) ==
    IF s = <<>> THEN 0
    ELSE LET d == s[Len(s)]
         IN IntOfSeq(SubSeq(s, 1, Len(s) - 1)) * Pow10(Len(d)) + IntOf(d)

\* str.isdigit()
IsDigit(s) == s # <<>> /\ \A i \in 1..Len(s) : s[i] \in DigitToks

\* re.search(r"<@&(?P<id>\d+)>", s): position of the first mention, 0 for no match
MentionAt(s) ==
    LET hits == {i \in 1..(Len(s) - 2) :
                   s[i] = "<@&" /\ s[i + 1] \in DigitToks /\ s[i + 2] = ">"}
    IN IF hits = {} THEN 0 ELSE CHOOSE i \in hits : \A j \in hits : i <= j

\* a role reference: an integer id, or a name still to be resolved
IntRef(n) == [int |-> TRUE, id |-> n, name |-> ""]
NameRef(t) == [int |-> FALSE, id |-> 0, name |-> t]

\* the role reference of one role_part: mention, then numeric id, then name
RoleRefOf(role_part) ==
    LET m == MentionAt(role_part)
    IN IF m # 0 THEN IntRef(IntOf(role_part[m + 1]))
       ELSE IF IsDigit(role_part) THEN IntRef(IntOfSeq(role_part))
       ELSE NameRef(Join(role_part))

\* an item split at its last "="
ParseItem_SplitLast(item) ==
    LET eq == CHOOSE n \in 1..Len(item) :
                item[n] = "=" /\ \A later \in (n + 1)..Len(item) : item[later] # "="
        emoji_part == Strip(SubSeq(item, 1, eq - 1))
        role_part == Strip(SubSeq(item, eq + 1, Len(item)))
    IN [pair |-> [key |-> normalize_emoji_key(emoji_part),
                  role |-> RoleRefOf(role_part),
                  render |-> Join(emoji_part)],
        label |-> <<Join(emoji_part), Join(role_part)>>]

\* one accepted item: (emoji_key, role_id, emoji_part) and its label
ParseItem(item) ==
    LET eq == FirstIn(item, {"="})
        emoji_part == Strip(SubSeq(item, 1, eq - 1))
        role_part == Strip(SubSeq(item, eq + 1, Len(item)))
    IN [pair |-> [key |-> normalize_emoji_key(emoji_part),
                  role |-> RoleRefOf(role_part),
                  render |-> Join(emoji_part)],
        label |-> <<Join(emoji_part), Join(role_part)>>]

RECURSIVE ParseItems(_, _)
\* the loop of parse_pairs over the split pieces, acc the result so far
ParseItems(raws, acc) ==
    IF raws = <<>> THEN acc
    ELSE LET item == Strip(Head(raws))
         IN IF item = <<>> THEN ParseItems(Tail(raws), acc)
            ELSE IF FirstIn(item, {"="}) = 0
            THEN [ok |-> FALSE, err |-> Join(item), pairs |-> <<>>, labels |-> <<>>]
            ELSE LET p == ParseItem(item)
                 IN ParseItems(Tail(raws),
                               [acc EXCEPT !.pairs = Append(@, p.pair),
                                           !.labels = Append(@, p.label)])

parse_pairs(pairs_str) ==
    ParseItems(SplitOn(pairs_str, {",", "\n"}),
               [ok |-> TRUE, err |-> "", pairs |-> <<>>, labels |-> <<>>])

(***************************************************************************)
(* resolve_role_ids, against the guild's live roles.                       *)
(***************************************************************************)
\* discord.utils.get(guild.roles, name=...) then the case-insensitive find; 0 for None
RoleByName(roles, name) ==
    LET exact == {r \in roles : RoleNameOf[r] = name}
        loose == {r \in roles : Lower(RoleNameOf[r]) = Lower(name)}
    IN IF exact # {} THEN CHOOSE r \in exact : \A q \in exact : r <= q
       ELSE IF loose # {} THEN CHOOSE r \in loose : \A q \in loose : r <= q
       ELSE 0

\* the role id one reference resolves to; -1 for None (the ValueError of line 114)
ResolveRef(roles, ref) ==
    IF ref.int THEN ref.id
    ELSE LET r == RoleByName(roles, ref.name) IN IF r # 0 THEN r ELSE -1

RECURSIVE ResolveItems(_, _, _)
ResolveItems(roles, items, acc) ==
    IF items = <<>> THEN acc
    ELSE LET it == Head(items)
             rid == ResolveRef(roles, it.role)
         IN IF rid = -1
            THEN [ok |-> FALSE, err |-> it.role.name, items |-> <<>>]
            ELSE ResolveItems(roles, Tail(items),
                   [acc EXCEPT !.items = Append(@, [key |-> it.key, role_id |-> rid,
                                                    render |-> it.render])])

resolve_role_ids(roles, items) ==
    ResolveItems(roles, items, [ok |-> TRUE, err |-> "", items |-> <<>>])

(***************************************************************************)
(* ensure_react_permissions.                                               *)
(***************************************************************************)
Needed == <<"Manage Roles", "Add Reactions", "Read Message History",
            "Send Messages", "Embed Links", "View Channel">>

\* a preflight that forgets Manage Roles
MissingPerms_NoManage(perms) ==
    SelectSeq(Needed, LAMBDA n : n \notin perms /\ n # "Manage Roles")

\* the names of the needed permissions the bot lacks, in the order of the list
MissingPerms(perms) ==
    SelectSeq(Needed, LAMBDA n : n \notin perms)

(***************************************************************************)
(* The embed lines built by createrole (lines 236-241): a line per item,   *)
(* or the ValueError of line 240 when an id is no role of the guild.       *)
(***************************************************************************)
RECURSIVE EmbedLines_NoCheck(_, _, _)
\* the embed built without the check of line 239
EmbedLines_NoCheck(roles, items, acc) ==
    IF items = <<>> THEN acc
    ELSE EmbedLines_NoCheck(roles, Tail(items),
           [acc EXCEPT !.lines = Append(@, <<Head(items).render, Head(items).role_id>>)])

RECURSIVE EmbedLines(_, _, _)
EmbedLines(roles, items, acc) ==
    IF items = <<>> THEN acc
    ELSE LET it == Head(items)
         IN IF it.role_id \notin roles
            THEN [ok |-> FALSE, lines |-> <<>>]
            ELSE EmbedLines(roles, Tail(items),
                   [acc EXCEPT !.lines = Append(@, <<it.render, it.role_id>>)])

RECURSIVE EmojiMapOf_FirstWins(_, _)
\* a map that keeps the first entry of a key
EmojiMapOf_FirstWins(items, acc) ==
    IF items = <<>> THEN acc
    ELSE LET it == Head(items)
         IN EmojiMapOf_FirstWins(Tail(items),
                       [k \in DOMAIN acc \cup {it.key} |->
                          IF k \in DOMAIN acc THEN acc[k] ELSE it.role_id])

\* emoji_map = {ek: rid for ek, rid, _ in items}: the last entry of a key wins
RECURSIVE EmojiMapOf(_, _)
EmojiMapOf(items, acc) ==
    IF items = <<>> THEN acc
    ELSE LET it == Head(items)
         IN EmojiMapOf(Tail(items),
                       [k \in DOMAIN acc \cup {it.key} |->
                          IF k = it.key THEN it.role_id ELSE acc[k]])

\* emoji_map.keys(): insertion order of first occurrence
RECURSIVE KeysOf(_, _)
KeysOf(items, acc) ==
    IF items = <<>> THEN acc
    ELSE KeysOf(Tail(items),
                IF \E i \in 1..Len(acc) : acc[i] = Head(items).key
                THEN acc ELSE Append(acc, Head(items).key))

(***************************************************************************)
(* Inputs: channel permission sets and pairs texts an operator may give.   *)
(***************************************************************************)
AllPerms == {Needed[i] : i \in 1..Len(Needed)}

PermCases == {AllPerms} \cup {AllPerms \ {p} : p \in AllPerms}

Grin == "U+1F600"

PairsInputs ==
    { <<Grin, "=", "Member">>,
      <<Grin, "=", "member", ",", " ", "<:", "cool", ":", "7", ">", "=", "<@&", "10", ">">>,
      <<Grin, "=", "Member", ",", Grin, "=", "20">>,
      <<"<a:", "gone", ":", "8", ">", "=", "10", "\n", "<:", "cool", ":", "7", ">", "=", "Gamer">>,
      <<Grin, " ", "Member">>,
      <<Grin, "=", "Nobody">>,
      <<Grin, "=", "30">>,
      <<Grin, "=", "<@&", "30", ">">>,
      <<Grin, "=", "=", "<@&", "10", ">">> }

\* the emojis users react with, as the gateway describes them in an event
Emojis == { [id |-> 0, name |-> Grin], [id |-> 7, name |-> "cool"] }

\* the members who react in this model; the other members only look on
Reactors == {"u1"}

(***************************************************************************)
(* What an input of createrole is, read off the text alone.                *)
(***************************************************************************)
\* the channel lacks at least one of the six permissions
LacksPermission(perms) ==
    \E p \in {"Manage Roles", "Add Reactions", "Read Message History",
              "Send Messages", "Embed Links", "View Channel"} : p \notin perms

\* the role part of an entry refers to no role of the guild
Unresolvable(part, roles) ==
    IF \E i \in 1..(Len(part) - 2) : part[i] = "<@&" /\ part[i + 2] = ">"
    THEN LET i == CHOOSE j \in 1..(Len(part) - 2) :
                    /\ part[j] = "<@&" /\ part[j + 2] = ">"
                    /\ \A h \in 1..(j - 1) : ~(part[h] = "<@&" /\ part[h + 2] = ">")
         IN IntTable[part[i + 1]] \notin roles
    ELSE IF Len(part) = 1 /\ part[1] \in DigitToks THEN IntTable[part[1]] \notin roles
    ELSE ~\E r \in roles : Lower(RoleNameOf[r]) = Lower(Join(part))

\* the pairs text has an entry without "=", or one whose role does not resolve
BadPairs(pairs, roles) ==
    LET entries == SplitOn(pairs, {",", "\n"})
    IN \E n \in 1..Len(entries) :
         LET item == Strip(entries[n])
             eq == FirstIn(item, {"="})
         IN /\ item # <<>>
            /\ \/ eq = 0
               \/ Unresolvable(Strip(SubSeq(item, eq + 1, Len(item))), roles)

\* how many "=" each entry of the pairs text that is not blank holds
EqCounts(pairs) ==
    LET entries == SplitOn(pairs, {",", "\n"})
    IN {Cardinality({n \in 1..Len(entries[k]) : entries[k][n] = "="}) :
          k \in {j \in 1..Len(entries) : Strip(entries[j]) # <<>>}}

(***************************************************************************)
(* State.                                                                  *)
(***************************************************************************)
VARIABLES
    reaction_roles, \* the in-memory store: message key -> record
    disk,           \* the content of DATA_FILE
    inv,            \* the createrole invocations, each with its position
    messages,       \* ids of the messages that exist in the channel
    posts,          \* the announcements posted: message id -> embed lines
    nextId,         \* the id the platform gives the next message
    reactions,      \* live reactions: [msg, user, emoji]
    queue,          \* reaction events the gateway has not delivered yet
    members,        \* users that are members of the guild
    guildRoles,     \* roles that exist in the guild
    memberRoles,    \* user -> the roles the user holds
    handled,        \* the event the last step handled, NoEvent otherwise
    calls,          \* the grant/revoke calls the last step made
    raised,         \* whether the handler of the last step raised
    nEvents,        \* reaction events the platform has emitted so far
    nEnv            \* guild changes (member left, role deleted) so far

vars == <<reaction_roles, disk, inv, messages, posts, nextId, reactions, queue,
          members, guildRoles, memberRoles, handled, calls, raised, nEvents, nEnv>>

Invs == 1..(MaxInv + MaxMore)

NoEvent == [kind |-> "none", msg |-> 0, user |-> "", guild |-> "", emoji |-> [id |-> 0, name |-> ""]]

IdleInv == [pc |-> "idle", lacks |-> FALSE, bad |-> FALSE, eqs |-> {}, items |-> <<>>,
            msg |-> 0, todo |-> <<>>, resp |-> <<>>]

EmptyStore == [k \in {} |-> 0]

\* the role sets the members start with: nobody holds a role, or the bot was
\* given Member by hand
StartRoles == { [u \in Users |-> {}],
                [u \in Users |-> IF u = BotUser THEN {10} ELSE {}] }

Init ==
    /\ reaction_roles = EmptyStore
    /\ disk = EmptyStore
    /\ inv = [i \in Invs |-> IdleInv]
    /\ messages = {1}
    /\ posts = [m \in {} |-> <<>>]
    /\ nextId = 2
    /\ reactions = {}
    /\ queue = <<>>
    /\ members = Users
    /\ guildRoles = RoleIds
    /\ memberRoles \in StartRoles
    /\ handled = NoEvent
    /\ calls = <<>>
    /\ raised = FALSE
    /\ nEvents = 0
    /\ nEnv = 0

\* what every step that is no event handler leaves behind
NoHandler == handled' = NoEvent /\ calls' = <<>> /\ raised' = FALSE

(***************************************************************************)
(* createrole (lines 215-270), one action per stretch between two awaits.  *)
(* A follow-up is sent in the stretch that reaches it (lines 261-270).     *)
(***************************************************************************)
\* the command arrives; await interaction.response.defer (line 228).
\* Invocations are numbered in the order they arrive
Invoke(i) ==
    /\ inv[i].pc = "idle"
    /\ \A j \in 1..(i - 1) : inv[j].pc # "idle"
    /\ inv' = [inv EXCEPT ![i].pc = "deferred"]
    /\ NoHandler
    /\ UNCHANGED <<reaction_roles, disk, messages, posts, nextId, reactions, queue,
                   members, guildRoles, memberRoles, nEvents, nEnv>>

\* the command arrives and interaction.response.defer raises (line 228, outside
\* the try of line 229): the command ends there, with no follow-up
DeferFails(i) ==
    /\ inv[i].pc = "idle"
    /\ \A j \in 1..(i - 1) : inv[j].pc # "idle"
    /\ inv' = [inv EXCEPT ![i].pc = "aborted"]
    /\ NoHandler
    /\ UNCHANGED <<reaction_roles, disk, messages, posts, nextId, reactions, queue,
                   members, guildRoles, memberRoles, nEvents, nEnv>>

\* lines 230-246: where validation of (perms, pairs) against the guild ends
Validated(perms, pairs, roles) ==
    IF MissingPerms(perms) # <<>> THEN [err |-> "perm", items |-> <<>>]
    ELSE LET parsed == parse_pairs(pairs)
         IN IF ~parsed.ok THEN [err |-> "value", items |-> <<>>]
            ELSE LET res == resolve_role_ids(roles, parsed.pairs)
                 IN IF ~res.ok THEN [err |-> "value", items |-> <<>>]
                    ELSE IF ~EmbedLines(roles, res.items, [ok |-> TRUE, lines |-> <<>>]).ok
                    THEN [err |-> "value", items |-> <<>>]
                    ELSE [err |-> "", items |-> res.items]

\* an ending that has no except clause for the unexpected errors
Finish_Silent(rec, kind) ==
    [rec EXCEPT !.pc = "done", !.items = <<>>, !.todo = <<>>,
                !.resp = IF kind = "unexpected" THEN @ ELSE Append(@, kind)]

\* the invocation ends with one follow-up of the given kind
Finish(rec, kind) == [rec EXCEPT !.pc = "done", !.items = <<>>, !.todo = <<>>,
                                 !.resp = Append(@, kind)]

\* lines 229-247 up to the await of channel.send, on the channel's permissions
\* and the pairs text of the command; lacks, bad and eqs record what the input was
Validate(i) ==
    /\ inv[i].pc = "deferred"
    /\ \E perms \in PermCases, pairs \in PairsInputs :
         LET v == Validated(perms, pairs, guildRoles)
             rec == [inv[i] EXCEPT !.lacks = LacksPermission(perms),
                                   !.bad = BadPairs(pairs, guildRoles),
                                   !.eqs = EqCounts(pairs)]
         IN inv' = [inv EXCEPT ![i] =
                      IF v.err = "" THEN [rec EXCEPT !.pc = "sending", !.items = v.items]
                      ELSE Finish(rec, v.err)]
    /\ NoHandler
    /\ UNCHANGED <<reaction_roles, disk, messages, posts, nextId, reactions, queue,
                   members, guildRoles, memberRoles, nEvents, nEnv>>

\* the lines of the embed of invocation i, as line 241 renders them
LinesOf(i) == [k \in 1..Len(inv[i].items) |->
                 <<inv[i].items[k].render, inv[i].items[k].role_id>>]

\* the platform creates the announcement of channel.send (line 247)
PlatformPost(i) ==
    /\ inv[i].pc = "sending"
    /\ messages' = messages \cup {nextId}
    /\ posts' = [m \in DOMAIN posts \cup {nextId} |->
                   IF m = nextId THEN LinesOf(i) ELSE posts[m]]
    /\ nextId' = nextId + 1
    /\ inv' = [inv EXCEPT ![i].pc = "sent", ![i].msg = nextId]
    /\ NoHandler
    /\ UNCHANGED <<reaction_roles, disk, reactions, queue, members, guildRoles,
                   memberRoles, nEvents, nEnv>>

\* channel.send raises (line 247), caught at line 269
SendFails(i) ==
    /\ inv[i].pc = "sending"
    /\ inv' = [inv EXCEPT ![i] = Finish(@, "unexpected")]
    /\ NoHandler
    /\ UNCHANGED <<reaction_roles, disk, messages, posts, nextId, reactions, queue,
                   members, guildRoles, memberRoles, nEvents, nEnv>>

\* the record of lines 251-255
RecordOf(items) == [emoji_map |-> EmojiMapOf(items, EmptyStore),
                    guild_id |-> GuildId, channel_id |-> ChannelId]

\* a store rebuilt around the new record alone
StorePut_Fresh(store, id, rec) == [k \in {StrOf(id)} |-> rec]

\* reaction_roles[str(msg.id)] = record
StorePut(store, id, rec) ==
    [k \in DOMAIN store \cup {StrOf(id)} |-> IF k = StrOf(id) THEN rec ELSE store[k]]

\* the loop of add_reactions_safely goes on with the keys left, or is over
LoopOn(rec, keys) ==
    IF keys = <<>> THEN Finish(rec, "success")
    ELSE [rec EXCEPT !.pc = "attaching", !.todo = keys]

\* a save that writes the file from the new record alone
Persist_SaveOwn(i) ==
    /\ inv[i].pc = "sent"
    /\ reaction_roles' = StorePut(reaction_roles, inv[i].msg, RecordOf(inv[i].items))
    /\ disk' = StorePut(EmptyStore, inv[i].msg, RecordOf(inv[i].items))
    /\ inv' = [inv EXCEPT ![i] = LoopOn(@, KeysOf(inv[i].items, <<>>))]
    /\ NoHandler
    /\ UNCHANGED <<messages, posts, nextId, reactions, queue, members, guildRoles,
                   memberRoles, nEvents, nEnv>>

\* lines 249-259: channel.send returned; store, save, and enter the attachment loop
Persist(i) ==
    /\ inv[i].pc = "sent"
    /\ reaction_roles' = StorePut(reaction_roles, inv[i].msg, RecordOf(inv[i].items))
    /\ \E saved \in BOOLEAN :
         IF saved
         THEN /\ disk' = reaction_roles'
              /\ inv' = [inv EXCEPT ![i] = LoopOn(@, KeysOf(inv[i].items, <<>>))]
         ELSE /\ disk' = disk
              /\ inv' = [inv EXCEPT ![i] = Finish(@, "unexpected")]
    /\ NoHandler
    /\ UNCHANGED <<messages, posts, nextId, reactions, queue, members, guildRoles,
                   memberRoles, nEvents, nEnv>>

\* a reaction event as the gateway carries it
Event(kind, m, u, e) == [kind |-> kind, msg |-> m, user |-> u, guild |-> GuildId, emoji |-> e]

\* str.startswith("e:")
IsCustomKey(key) == Len(key) >= 2 /\ SubSeq(key, 1, 2) = "e:"

\* lines 137-144: the emoji add_reaction is called with, NoEmoji when the key is skipped
NoEmoji == [id |-> -1, name |-> ""]

EmojiToAttach(key) ==
    IF IsCustomKey(key)
    THEN LET digits == SubSeq(key, 3, Len(key))
         IN IF digits \in DigitToks /\ IntOf(digits) \in GuildEmojiIds
            THEN [id |-> IntOf(digits), name |-> "cool"]
            ELSE NoEmoji
    ELSE [id |-> 0, name |-> key]

\* a loop that goes on to the next key without the sleep of line 145
Attach_NoSleep(i) ==
    /\ inv[i].pc = "attaching"
    /\ LET e == EmojiToAttach(Head(inv[i].todo))
       IN \/ /\ e = NoEmoji
             /\ inv' = [inv EXCEPT ![i] = LoopOn(@, Tail(inv[i].todo))]
             /\ UNCHANGED <<reactions, queue, nEvents>>
          \/ /\ e # NoEmoji
             /\ Len(queue) < MaxQueue
             /\ nEvents < MaxEvents
             /\ nEvents' = nEvents + 1
             /\ reactions' = reactions \cup {[msg |-> inv[i].msg, user |-> BotUser, emoji |-> e]}
             /\ queue' = Append(queue, Event("add", inv[i].msg, BotUser, e))
             /\ inv' = [inv EXCEPT ![i] = LoopOn(@, Tail(inv[i].todo))]
          \/ /\ e # NoEmoji
             /\ inv' = [inv EXCEPT ![i] = LoopOn(@, Tail(inv[i].todo))]
             /\ UNCHANGED <<reactions, queue, nEvents>>
    /\ NoHandler
    /\ UNCHANGED <<reaction_roles, disk, messages, posts, nextId, members, guildRoles,
                   memberRoles, nEnv>>

\* a loop whose except clause lets the error of add_reaction end the command
Attach_RaiseAborts(i) ==
    /\ inv[i].pc = "attaching"
    /\ LET e == EmojiToAttach(Head(inv[i].todo))
       IN \/ /\ e = NoEmoji
             /\ inv' = [inv EXCEPT ![i] = LoopOn(@, Tail(inv[i].todo))]
             /\ UNCHANGED <<reactions, queue, nEvents>>
          \/ /\ e # NoEmoji
             /\ Len(queue) < MaxQueue
             /\ nEvents < MaxEvents
             /\ nEvents' = nEvents + 1
             /\ reactions' = reactions \cup {[msg |-> inv[i].msg, user |-> BotUser, emoji |-> e]}
             /\ queue' = Append(queue, Event("add", inv[i].msg, BotUser, e))
             /\ inv' = [inv EXCEPT ![i].pc = "sleeping"]
          \/ /\ e # NoEmoji
             /\ inv' = [inv EXCEPT ![i] = Finish(@, "unexpected")]
             /\ UNCHANGED <<reactions, queue, nEvents>>
    /\ NoHandler
    /\ UNCHANGED <<reaction_roles, disk, messages, posts, nextId, members, guildRoles,
                   memberRoles, nEnv>>

\* add_reactions_safely (lines 134-147): one turn of the loop. The key is skipped
\* (line 141), or add_reaction is called and succeeds (then the sleep of line 145
\* is awaited), or it raises and the loop goes on (line 147)
Attach(i) ==
    /\ inv[i].pc = "attaching"
    /\ LET e == EmojiToAttach(Head(inv[i].todo))
       IN \/ /\ e = NoEmoji
             /\ inv' = [inv EXCEPT ![i] = LoopOn(@, Tail(inv[i].todo))]
             /\ UNCHANGED <<reactions, queue, nEvents>>
          \/ /\ e # NoEmoji
             /\ Len(queue) < MaxQueue
             /\ nEvents < MaxEvents
             /\ nEvents' = nEvents + 1
             /\ reactions' = reactions \cup {[msg |-> inv[i].msg, user |-> BotUser, emoji |-> e]}
             /\ queue' = Append(queue, Event("add", inv[i].msg, BotUser, e))
             /\ inv' = [inv EXCEPT ![i].pc = "sleeping"]
          \/ /\ e # NoEmoji
             /\ inv' = [inv EXCEPT ![i] = LoopOn(@, Tail(inv[i].todo))]
             /\ UNCHANGED <<reactions, queue, nEvents>>
    /\ NoHandler
    /\ UNCHANGED <<reaction_roles, disk, messages, posts, nextId, members, guildRoles,
                   memberRoles, nEnv>>

\* await asyncio.sleep(0.3) returns (line 145); after the last key, line 261
Slept(i) ==
    /\ inv[i].pc = "sleeping"
    /\ inv' = [inv EXCEPT ![i] = LoopOn(@, Tail(inv[i].todo))]
    /\ NoHandler
    /\ UNCHANGED <<reaction_roles, disk, messages, posts, nextId, reactions, queue,
                   members, guildRoles, memberRoles, nEvents, nEnv>>

(***************************************************************************)
(* The platform: users react and unreact, members leave, roles go.         *)
(***************************************************************************)
React(u, m, e) ==
    /\ u \in members \cap Reactors
    /\ m \in messages
    /\ [msg |-> m, user |-> u, emoji |-> e] \notin reactions
    /\ nEvents < MaxEvents
    /\ Len(queue) < MaxQueue
    /\ reactions' = reactions \cup {[msg |-> m, user |-> u, emoji |-> e]}
    /\ queue' = Append(queue, Event("add", m, u, e))
    /\ nEvents' = nEvents + 1
    /\ NoHandler
    /\ UNCHANGED <<reaction_roles, disk, inv, messages, posts, nextId, members,
                   guildRoles, memberRoles, nEnv>>

\* a reaction is taken off, by its user or by a moderator
Unreact(r) ==
    /\ r \in reactions
    /\ Len(queue) < MaxQueue
    /\ nEvents < MaxEvents
    /\ nEvents' = nEvents + 1
    /\ reactions' = reactions \ {r}
    /\ queue' = Append(queue, Event("remove", r.msg, r.user, r.emoji))
    /\ NoHandler
    /\ UNCHANGED <<reaction_roles, disk, inv, messages, posts, nextId, members,
                   guildRoles, memberRoles, nEnv>>

MemberLeaves(u) ==
    /\ u \in members \cap Reactors
    /\ nEnv < MaxEnv
    /\ members' = members \ {u}
    /\ memberRoles' = [memberRoles EXCEPT ![u] = {}]
    /\ nEnv' = nEnv + 1
    /\ NoHandler
    /\ UNCHANGED <<reaction_roles, disk, inv, messages, posts, nextId, reactions,
                   queue, guildRoles, nEvents>>

RoleDeleted(r) ==
    /\ r \in guildRoles
    /\ nEnv < MaxEnv
    /\ guildRoles' = guildRoles \ {r}
    /\ memberRoles' = [u \in Users |-> memberRoles[u] \ {r}]
    /\ nEnv' = nEnv + 1
    /\ NoHandler
    /\ UNCHANGED <<reaction_roles, disk, inv, messages, posts, nextId, reactions,
                   queue, members, nEvents>>

(***************************************************************************)
(* The reconciler: on_raw_reaction_add / on_raw_reaction_remove.           *)
(***************************************************************************)
\* a lookup that falls back on some role of the record when the key is unbound
BoundRole_AnyKey(store, ev) ==
    LET k == StrOf(ev.msg)
        key == emoji_key_from_payload(ev.emoji)
    IN IF k \notin DOMAIN store THEN 0
       ELSE IF key \in DOMAIN store[k].emoji_map THEN store[k].emoji_map[key]
       ELSE IF DOMAIN store[k].emoji_map = {} THEN 0
       ELSE store[k].emoji_map[CHOOSE x \in DOMAIN store[k].emoji_map : TRUE]

\* reaction_roles.get(str(payload.message_id)), then emoji_map.get(key); 0 for None
BoundRole(store, ev) ==
    LET k == StrOf(ev.msg)
        key == emoji_key_from_payload(ev.emoji)
    IN IF k \notin DOMAIN store THEN 0
       ELSE IF key \notin DOMAIN store[k].emoji_map THEN 0
       ELSE store[k].emoji_map[key]

\* outcomes of a grant/revoke call: done, discord.Forbidden, another HTTPException
CallResults == {"ok", "forbidden", "httperror"}

NoCall(mr) == [calls |-> <<>>, roles |-> mr, raised |-> FALSE, failed |-> FALSE]

\* a handler whose try has no except clause for discord.Forbidden
Reconcile_Uncaught(ev, grant, store, mem, groles, mr, result) ==
    LET role_id == BoundRole(store, ev)
    IN IF role_id = 0 \/ ev.guild # GuildId THEN NoCall(mr)
       ELSE IF ev.user \notin mem \/ role_id \notin groles
       THEN [NoCall(mr) EXCEPT !.failed = TRUE]
       ELSE [calls |-> <<[op |-> IF grant THEN "add_roles" ELSE "remove_roles",
                          user |-> ev.user, role |-> role_id, result |-> result,
                          held |-> role_id \in mr[ev.user]]>>,
             roles |-> IF result # "ok" THEN mr
                       ELSE [mr EXCEPT ![ev.user] =
                               IF grant THEN @ \cup {role_id} ELSE @ \ {role_id}],
             raised |-> result # "ok",
             failed |-> result # "ok"]

\* lines 167-183 (add, grant = TRUE) and 188-204 (remove, grant = FALSE):
\* what the handler does from the store lookup on, under the call's result;
\* a call is noted with whether the member held the role when it was made
Reconcile(ev, grant, store, mem, groles, mr, result) ==
    LET role_id == BoundRole(store, ev)
    IN IF role_id = 0 THEN NoCall(mr)
       ELSE IF ev.guild # GuildId THEN NoCall(mr)
       ELSE IF ev.user \notin mem \/ role_id \notin groles
       THEN [NoCall(mr) EXCEPT !.failed = TRUE]
       ELSE [calls |-> <<[op |-> IF grant THEN "add_roles" ELSE "remove_roles",
                          user |-> ev.user, role |-> role_id, result |-> result,
                          held |-> role_id \in mr[ev.user]]>>,
             roles |-> IF result # "ok" THEN mr
                       ELSE [mr EXCEPT ![ev.user] =
                               IF grant THEN @ \cup {role_id} ELSE @ \ {role_id}],
             raised |-> result = "httperror",
             failed |-> result # "ok"]

\* an add handler without the self-check of line 165
AddOutcome_NoSelfCheck(ev, store, mem, groles, mr, result) ==
    Reconcile(ev, TRUE, store, mem, groles, mr, result)

\* an add handler that takes the role back when the member holds it already
AddOutcome_Toggle(ev, store, mem, groles, mr, result) ==
    IF ev.user = BotUser THEN NoCall(mr)
    ELSE Reconcile(ev, BoundRole(store, ev) \notin mr[ev.user], store, mem, groles, mr, result)

\* on_raw_reaction_add (lines 164-183) on event ev
AddOutcome(ev, store, mem, groles, mr, result) ==
    IF ev.user = BotUser THEN NoCall(mr)
    ELSE Reconcile(ev, TRUE, store, mem, groles, mr, result)

\* a remove handler that grants the role when the member does not hold it
RemoveOutcome_Toggle(ev, store, mem, groles, mr, result) ==
    Reconcile(ev, BoundRole(store, ev) \notin mr[ev.user], store, mem, groles, mr, result)

\* a remove handler that grants instead of revoking
RemoveOutcome_Grants(ev, store, mem, groles, mr, result) ==
    Reconcile(ev, TRUE, store, mem, groles, mr, result)

\* on_raw_reaction_remove (lines 187-204) on event ev
RemoveOutcome(ev, store, mem, groles, mr, result) ==
    Reconcile(ev, FALSE, store, mem, groles, mr, result)

RemoveAt(q, k) == SubSeq(q, 1, k - 1) \o SubSeq(q, k + 1, Len(q))

\* the gateway delivers queue[k] and the handler of its kind runs
Handle(k, out) ==
    /\ queue' = RemoveAt(queue, k)
    /\ memberRoles' = out.roles
    /\ handled' = queue[k]
    /\ calls' = out.calls
    /\ raised' = out.raised
    /\ UNCHANGED <<reaction_roles, disk, inv, messages, posts, nextId, reactions,
                   members, guildRoles, nEvents, nEnv>>

on_raw_reaction_add(k, result) ==
    /\ k \in 1..Len(queue)
    /\ queue[k].kind = "add"
    /\ Handle(k, AddOutcome(queue[k], reaction_roles, members, guildRoles,
                            memberRoles, result))

on_raw_reaction_remove(k, result) ==
    /\ k \in 1..Len(queue)
    /\ queue[k].kind = "remove"
    /\ Handle(k, RemoveOutcome(queue[k], reaction_roles, members, guildRoles,
                               memberRoles, result))

\* the transport delivers an event twice
Duplicate(k) ==
    /\ k \in 1..Len(queue)
    /\ Len(queue) < MaxQueue
    /\ nEvents < MaxEvents
    /\ nEvents' = nEvents + 1
    /\ queue' = Append(queue, queue[k])
    /\ NoHandler
    /\ UNCHANGED <<reaction_roles, disk, inv, messages, posts, nextId, reactions,
                   members, guildRoles, memberRoles, nEnv>>

\* createrole, for the invocations of set I
Command(I) ==
    \/ \E i \in I : Invoke(i)
    \/ \E i \in I : DeferFails(i)
    \/ \E i \in I : Validate(i)
    \/ \E i \in I : PlatformPost(i)
    \/ \E i \in I : SendFails(i)
    \/ \E i \in I : Persist(i)
    \/ \E i \in I : Attach(i)
    \/ \E i \in I : Slept(i)

\* MaxInv commands, and a gateway that may reorder, repeat and fail
Next ==
    \/ Command(1..MaxInv)
    \/ \E u \in Users, m \in messages, e \in Emojis : React(u, m, e)
    \/ \E r \in reactions : Unreact(r)
    \/ \E u \in Users : MemberLeaves(u)
    \/ \E r \in RoleIds : RoleDeleted(r)
    \/ \E k \in 1..MaxQueue, result \in CallResults : on_raw_reaction_add(k, result)
    \/ \E k \in 1..MaxQueue, result \in CallResults : on_raw_reaction_remove(k, result)
    \/ \E k \in 1..MaxQueue : Duplicate(k)

Spec == Init /\ [][Next]_vars

\* no command is being served
Quiet == \A j \in Invs : inv[j].pc \in {"idle", "done", "aborted"}

\* createrole, for the invocations of set I given one after the other
CommandInTurn(I) ==
    \/ \E i \in I : Quiet /\ Invoke(i)
    \/ \E i \in I : Quiet /\ DeferFails(i)
    \/ \E i \in I : Validate(i)
    \/ \E i \in I : PlatformPost(i)
    \/ \E i \in I : SendFails(i)
    \/ \E i \in I : Persist(i)
    \/ \E i \in I : Attach(i)
    \/ \E i \in I : Slept(i)

\* more commands, one after the other, events delivered once and in order
NextMany ==
    \/ CommandInTurn(Invs)
    \/ \E u \in Users, m \in messages, e \in Emojis : React(u, m, e)
    \/ \E r \in reactions : Unreact(r)
    \/ \E result \in CallResults : on_raw_reaction_add(1, result)
    \/ \E result \in CallResults : on_raw_reaction_remove(1, result)

SpecMany == Init /\ [][NextMany]_vars

\* the announcement of message m has been posted and its record is not stored yet
Unstored(m) == m \in DOMAIN posts /\ StrOf(m) \notin DOMAIN reaction_roles

\* as NextMany, where moreover every call succeeds and nobody reacts to an
\* announcement before its record is stored
NextFaithful ==
    \/ CommandInTurn(Invs)
    \/ \E u \in Users, m \in messages, e \in Emojis : ~Unstored(m) /\ React(u, m, e)
    \/ \E r \in reactions : Unreact(r)
    \/ on_raw_reaction_add(1, "ok")
    \/ on_raw_reaction_remove(1, "ok")

SpecFaithful == Init /\ [][NextFaithful]_vars

\* commands served at the same time, interleaved at their awaits, while the
\* seeded reactions are delivered, taken off and handled
NextConcurrent ==
    \/ Command(Invs)
    \/ \E r \in reactions : Unreact(r)
    \/ \E result \in CallResults : on_raw_reaction_add(1, result)
    \/ \E result \in CallResults : on_raw_reaction_remove(1, result)

SpecConcurrent == Init /\ [][NextConcurrent]_vars

\* the event loop runs every coroutine that is ready: a loop turn that can be
\* taken and a sleep that is over are not put off for ever
Fairness == \A i \in Invs : WF_vars(Attach(i)) /\ WF_vars(Slept(i))

SpecFair == SpecConcurrent /\ Fairness

\* the step of invocation i that comes after the await it is at, once its input
\* is validated
Resume(i) ==
    \/ PlatformPost(i)
    \/ SendFails(i)
    \/ Persist(i)
    \/ Attach(i)
    \/ Slept(i)

\* every await of a command returns or raises in the end. Validate(i) is enabled
\* exactly when invocation i is at "deferred" and leaves it, so its weak fairness
\* is written as the second conjunct
FairnessAll ==
    \A i \in Invs : WF_vars(Resume(i)) /\ []<>(inv[i].pc # "deferred")

SpecFairAll == SpecConcurrent /\ FairnessAll

\* a member activates a verification control. The program registers on_ready, the
\* two raw reaction handlers and createrole and nothing else (lines 150-270): no
\* code of it handles the interaction, so nothing of its state changes and no
\* call is made; handled notes that the activation took place
VerifyActivated(u) ==
    /\ u \in members \ {BotUser}
    /\ handled' = [NoEvent EXCEPT !.kind = "verify", !.user = u, !.guild = GuildId]
    /\ calls' = <<>>
    /\ raised' = FALSE
    /\ UNCHANGED <<reaction_roles, disk, inv, messages, posts, nextId, reactions, queue,
                   members, guildRoles, memberRoles, nEvents, nEnv>>

\* the commands and handlers, and members activating a verification control
NextVerify ==
    \/ NextConcurrent
    \/ \E u \in Users : VerifyActivated(u)
    \/ \E r \in RoleIds : RoleDeleted(r)

SpecVerify == Init /\ [][NextVerify]_vars

(***************************************************************************)
(* Properties.                                                             *)
(***************************************************************************)
\* the messages a live reaction of the bot sits on
SeededMsgs == {r.msg : r \in {x \in reactions : x.user = BotUser}}

\* invocation j posted message m after a validation that had nothing to refuse
PostedBy(j, m) == inv[j].msg = m /\ m # 0 /\ ~inv[j].lacks /\ ~inv[j].bad

\* every announcement, store key, file key and seeded reaction belongs to an
\* invocation whose input was valid
AllFromValid ==
    /\ \A m \in DOMAIN posts \cup SeededMsgs : \E j \in Invs : PostedBy(j, m)
    /\ \A k \in DOMAIN reaction_roles \cup DOMAIN disk :
         \E j \in Invs : PostedBy(j, inv[j].msg) /\ StrOf(inv[j].msg) = k

\* a step of invocation i
StepOf(i) == inv'[i] # inv[i]

\* nothing the platform or the store holds changes
NoEffect == UNCHANGED <<reaction_roles, disk, messages, posts, nextId, reactions, queue>>

\* C1: a createrole invocation on a channel where the bot lacks one of the six
\* needed permissions ends with the permission error as its only follow-up,
\* posts no announcement, attaches no reaction, and leaves the store in memory
\* and the file as they were.
C1_PermissionAbort ==
    /\ [](\A i \in Invs : inv[i].lacks =>
            /\ inv[i].pc = "done"
            /\ inv[i].resp = <<"perm">>
            /\ inv[i].msg = 0
            /\ AllFromValid)
    /\ [][\A i \in Invs : (StepOf(i) /\ inv'[i].lacks) => NoEffect]_vars

C1_Witness == \E i \in Invs : inv[i].lacks /\ inv[i].pc = "done"

\* C2: a createrole invocation whose pairs text has an entry without "=" or a
\* role reference that resolves to no role of the guild ends with an error
\* follow-up as its only effect: no announcement is posted and the store in
\* memory and the file stay as they were.
C2_BadPairsAbort ==
    /\ [](\A i \in Invs : inv[i].bad =>
            /\ inv[i].pc = "done"
            /\ inv[i].resp \in {<<"perm">>, <<"value">>}
            /\ (~inv[i].lacks => inv[i].resp = <<"value">>)
            /\ inv[i].msg = 0
            /\ AllFromValid)
    /\ [][\A i \in Invs : (StepOf(i) /\ inv'[i].bad) => NoEffect]_vars

C2_Witness == \E i \in Invs : inv[i].bad /\ ~inv[i].lacks /\ inv[i].resp = <<"value">>

\* the role the record of the event's message binds the event's emoji to, 0 for none
RoleBoundFor(ev) ==
    LET k == StrOf(ev.msg)
        key == IF ev.emoji.id # 0 THEN "e:" \o StrOf(ev.emoji.id) ELSE ev.emoji.name
    IN IF k \in DOMAIN reaction_roles /\ key \in DOMAIN reaction_roles[k].emoji_map
       THEN reaction_roles[k].emoji_map[key] ELSE 0

\* the event the last step handled was one of a non-bot member for a bound emoji,
\* with member and role resolving in the guild
Resolving(ev) ==
    /\ ev # NoEvent
    /\ ev.user # BotUser
    /\ RoleBoundFor(ev) # 0
    /\ ev.user \in members
    /\ RoleBoundFor(ev) \in guildRoles

\* the role sets differ at most by role r of user u
OnlyAt(u, r) ==
    \A v \in Users : memberRoles'[v] \ (IF v = u THEN {r} ELSE {})
                     = memberRoles[v] \ (IF v = u THEN {r} ELSE {})

\* C3: with a record binding emoji E to role R on message M, a reaction-added
\* event for (M, E) by a non-bot user U who resolves makes exactly one call, a
\* grant of R to U, and a reaction-removed event for (M, E, U) exactly one
\* call, a revoke of R from U; nothing else about any role set changes.
C3_OneGrantOneRevoke ==
    /\ [](Resolving(handled) =>
            /\ Len(calls) = 1
            /\ calls[1].user = handled.user
            /\ calls[1].role = RoleBoundFor(handled)
            /\ calls[1].op = (IF handled.kind = "add" THEN "add_roles" ELSE "remove_roles")
            /\ (calls[1].result = "ok" =>
                  (handled.kind = "add" <=> calls[1].role \in memberRoles[handled.user])))
    /\ [][Resolving(handled') => OnlyAt(handled'.user, RoleBoundFor(handled'))]_vars

C3_Witness ==
    /\ Resolving(handled)
    /\ handled.kind = "remove"
    /\ calls # <<>> /\ calls[1].result = "ok"
    /\ \E v \in Users : memberRoles[v] # {}

\* C4: a reaction event whose message has no record in the store, or whose emoji
\* is no key of that record's emoji_map, makes no call and changes no role set.
C4_UnmanagedNoMutation ==
    /\ []((handled # NoEvent /\ RoleBoundFor(handled) = 0) => calls = <<>> /\ ~raised)
    /\ [][(handled' # NoEvent /\ RoleBoundFor(handled') = 0)
            => memberRoles' = memberRoles]_vars

C4_Witness ==
    /\ handled # NoEvent /\ handled.user # BotUser
    /\ StrOf(handled.msg) \in DOMAIN reaction_roles
    /\ RoleBoundFor(handled) = 0

\* the roles some record binds, and the (message, emoji key) pairs bound to role r
BoundRoles ==
    UNION {{reaction_roles[k].emoji_map[e] : e \in DOMAIN reaction_roles[k].emoji_map} :
             k \in DOMAIN reaction_roles}

BindingsOf(r) ==
    {b \in UNION {{<<k, e>> : e \in DOMAIN reaction_roles[k].emoji_map} :
                    k \in DOMAIN reaction_roles} :
       reaction_roles[b[1]].emoji_map[b[2]] = r}

\* user u has a live reaction that is bound to role r
ReactsFor(u, r) ==
    \E x \in reactions : x.user = u /\ RoleBoundFor(Event("add", x.msg, x.user, x.emoji)) = r

\* C5, as claimed: once every event is processed, a non-bot member holds a bound
\* role exactly when the member has a live reaction, on any message and with
\* any emoji, that is bound to it.
C5_Original ==
    queue = <<>> =>
      \A u \in members \ {BotUser}, r \in BoundRoles \cap guildRoles :
        r \in memberRoles[u] <=> ReactsFor(u, r)

\* C5, amended: the same for every role that exactly one (message, emoji) pair
\* of the store is bound to.
C5_SingleBinding ==
    queue = <<>> =>
      \A u \in members \ {BotUser}, r \in BoundRoles \cap guildRoles :
        Cardinality(BindingsOf(r)) = 1 => (r \in memberRoles[u] <=> ReactsFor(u, r))

C5_Witness ==
    /\ queue = <<>>
    /\ handled.kind = "remove" /\ handled.user # BotUser
    /\ \E r \in BoundRoles : Cardinality(BindingsOf(r)) = 1 /\ r = RoleBoundFor(handled)
    /\ \E u \in Users \ {BotUser}, r \in BoundRoles :
         Cardinality(BindingsOf(r)) = 1 /\ r \in memberRoles[u] /\ ReactsFor(u, r)

\* the role sets after the handler of event ev ran on role sets mr, its call succeeding
RolesAfter(ev, mr) ==
    IF ev.kind = "add"
    THEN AddOutcome(ev, reaction_roles, members, guildRoles, mr, "ok").roles
    ELSE RemoveOutcome(ev, reaction_roles, members, guildRoles, mr, "ok").roles

RECURSIVE Drain(_, _)
\* the role sets after the events of p are handled in the order of p
Drain(p, mr) == IF p = <<>> THEN mr ELSE Drain(Tail(p), RolesAfter(Head(p), mr))

\* the delivery orders of the events of q
Orders(q) ==
    LET n == Len(q)
    IN {[i \in 1..n |-> q[f[i]]] :
          f \in {g \in [1..n -> 1..n] : \A a, b \in 1..n : a # b => g[a] # g[b]}}

\* p with its k-th event delivered twice in a row
Redelivered(p, k) == SubSeq(p, 1, k) \o <<p[k]>> \o SubSeq(p, k + 1, Len(p))

\* the pending events are all about one (message, member, emoji) of a non-bot member
OneTriple(q) ==
    /\ q # <<>>
    /\ q[1].user # BotUser
    /\ \A i \in 1..Len(q) :
         q[i].msg = q[1].msg /\ q[i].user = q[1].user /\ q[i].emoji = q[1].emoji

\* C6, as claimed: whatever the order in which the pending events of one triple
\* are delivered, and whichever of them is delivered twice, the final role sets
\* are the same.
C6_Original ==
    OneTriple(queue) =>
      \A p \in Orders(queue) :
        /\ Drain(p, memberRoles) = Drain(queue, memberRoles)
        /\ \A k \in 1..Len(queue) :
             \A d \in Orders(Append(queue, queue[k])) :
               Drain(d, memberRoles) = Drain(queue, memberRoles)

\* C6, amended: the final role sets are those the event delivered last gives on
\* its own, so two orders that end with events of the same kind agree, and
\* delivering an event twice in a row changes nothing.
C6_LastEventDecides ==
    OneTriple(queue) =>
      \A p \in Orders(queue) :
        /\ Drain(p, memberRoles) = RolesAfter(p[Len(p)], memberRoles)
        /\ \A k \in 1..Len(p) :
             Drain(Redelivered(p, k), memberRoles) = Drain(p, memberRoles)

C6_Witness ==
    /\ OneTriple(queue)
    /\ Len(queue) = 2
    /\ queue[1].kind # queue[2].kind
    /\ Resolving(queue[1])

\* C7: a reaction-added event for a role the member holds, and a reaction-removed
\* event for a role the member does not hold, leave every role set as it was;
\* and handling an event twice in a row gives the role sets of handling it once.
C7_Idempotent ==
    /\ [][(/\ Resolving(handled')
           /\ handled'.kind = "add" <=> RoleBoundFor(handled') \in memberRoles[handled'.user])
            => memberRoles' = memberRoles]_vars
    /\ [](\A k \in 1..Len(queue) :
            RolesAfter(queue[k], RolesAfter(queue[k], memberRoles))
              = RolesAfter(queue[k], memberRoles))

C7_Witness ==
    /\ Resolving(handled)
    /\ calls # <<>> /\ calls[1].result = "ok"
    /\ calls[1].held = (handled.kind = "add")

\* C8, as claimed: handling a reaction event whose actor is the bot changes no
\* role set.
C8_Original ==
    [][(handled' # NoEvent /\ handled'.user = BotUser) => memberRoles' = memberRoles]_vars

\* C8, amended: a reaction-added event of the bot makes no call and changes no
\* role set; a reaction-removed event of the bot changes no other member's role
\* set and takes from the bot at most the bound role; and no step of a handler
\* ever gives the bot a role.
C8_BotNeverGains ==
    /\ []((handled # NoEvent /\ handled.user = BotUser /\ handled.kind = "add")
            => calls = <<>>)
    /\ [][(handled' # NoEvent /\ handled'.user = BotUser) =>
            /\ handled'.kind = "add" => memberRoles' = memberRoles
            /\ OnlyAt(BotUser, RoleBoundFor(handled'))
            /\ memberRoles'[BotUser] \subseteq memberRoles[BotUser]]_vars
    /\ [][handled' # NoEvent => memberRoles'[BotUser] \subseteq memberRoles[BotUser]]_vars

C8_Witness ==
    /\ handled.user = BotUser /\ handled.kind = "remove"
    /\ calls # <<>> /\ calls[1].result = "ok"
    /\ \E i \in Invs : inv[i].pc \in {"attaching", "sleeping"}

\* the handler of bound event ev met a member or role that does not resolve, or a
\* call the platform refused
FailedQuietly(ev) ==
    /\ ev # NoEvent
    /\ RoleBoundFor(ev) # 0
    /\ (ev.kind = "add" => ev.user # BotUser)
    /\ \/ ev.user \notin members
       \/ RoleBoundFor(ev) \notin guildRoles
       \/ calls # <<>> /\ calls[1].result = "forbidden"

C10_RecordsImmutable ==
    /\ [][/\ \A k \in DOMAIN reaction_roles :
               k \in DOMAIN reaction_roles' /\ reaction_roles'[k] = reaction_roles[k]
          /\ \A k \in DOMAIN disk : k \in DOMAIN disk' /\ disk'[k] = disk[k]]_vars
    /\ [][handled' # NoEvent => UNCHANGED <<reaction_roles, disk>>]_vars

C10_Witness ==
    /\ Cardinality(DOMAIN reaction_roles) = 2
    /\ handled # NoEvent /\ RoleBoundFor(handled) # 0

\* the role ids the values of emoji_map m are, and those of an item list
ValuesOf(m) == {m[e] : e \in DOMAIN m}

RoleIdsOf(items) == {items[n].role_id : n \in 1..Len(items)}

\* C11, as claimed: every value of the emoji_map of a record is the id of a role
\* that exists in the guild at the step that puts the record in the store.
C11_Original ==
    [][\A k \in DOMAIN reaction_roles' \ DOMAIN reaction_roles :
         ValuesOf(reaction_roles'[k].emoji_map) \subseteq guildRoles]_vars

\* C11, amended: every value of every emoji_map, in memory and in the file, is
\* an integer role id, never a name; it is the id of a role that existed in the
\* guild when the invocation validated its pairs, and the items validated are
\* the ones stored.
C11_ResolvedWhenValidated ==
    /\ [](\A k \in DOMAIN reaction_roles :
            ValuesOf(reaction_roles[k].emoji_map) \subseteq RoleIds)
    /\ [](\A k \in DOMAIN disk : ValuesOf(disk[k].emoji_map) \subseteq RoleIds)
    /\ [][\A i \in Invs :
            /\ (inv[i].pc = "deferred" /\ inv'[i].pc = "sending")
                 => RoleIdsOf(inv'[i].items) \subseteq guildRoles
            /\ (inv[i].pc = "sending" /\ inv'[i].pc = "sent")
                 => inv'[i].items = inv[i].items
            /\ (inv[i].pc = "sent" /\ StepOf(i))
                 => /\ StrOf(inv[i].msg) \in DOMAIN reaction_roles'
                    /\ ValuesOf(reaction_roles'[StrOf(inv[i].msg)].emoji_map)
                         \subseteq RoleIdsOf(inv[i].items)]_vars

C11_Witness ==
    \E k \in DOMAIN disk :
      /\ Cardinality(DOMAIN disk[k].emoji_map) = 2
      /\ ValuesOf(disk[k].emoji_map) \ guildRoles # {}

\* invocation i got past the store write of lines 251-256
PastPersist(i) == inv[i].msg # 0 /\ inv[i].pc \in {"attaching", "sleeping", "done"}

\* the save_data of invocation i raised
SaveFailed(i) ==
    inv[i].pc = "done" /\ inv[i].msg # 0 /\ inv[i].resp = <<"unexpected">>

\* C12: as long as no save has failed, at every await of every command and
\* handler, however the commands interleave, the file equals the map in memory
\* and holds exactly one record for each announcement whose invocation got past
\* the store write, binding roles its announcement shows.
C12_DurableEqualsMemory ==
    (\A i \in Invs : ~SaveFailed(i)) =>
      /\ disk = reaction_roles
      /\ DOMAIN disk = {StrOf(inv[i].msg) : i \in {j \in Invs : PastPersist(j)}}
      /\ Cardinality(DOMAIN disk) = Cardinality({j \in Invs : PastPersist(j)})
      /\ \A i \in Invs : PastPersist(i) =>
           /\ ValuesOf(disk[StrOf(inv[i].msg)].emoji_map)
                \subseteq {posts[inv[i].msg][n][2] : n \in 1..Len(posts[inv[i].msg])}
           /\ DOMAIN disk[StrOf(inv[i].msg)].emoji_map # {}

C12_Witness ==
    /\ \A i \in Invs : ~SaveFailed(i)
    /\ inv[1].pc = "sleeping" /\ inv[2].pc = "attaching"
    /\ inv[2].msg < inv[1].msg
    /\ Cardinality(DOMAIN disk) = 2

\* C13: a turn of the attachment loop that attaches nothing (the custom emoji is
\* unknown to the guild, or add_reaction raises) drops that key alone and goes
\* on with the keys left, leaving the store and the file as they were; while the
\* loop runs the record is in the store; and an invocation whose record was
\* saved ends with the success follow-up.
C13_BestEffort ==
    /\ [][\A i \in Invs :
            (inv[i].pc = "attaching" /\ StepOf(i) /\ UNCHANGED <<reactions, queue>>) =>
              /\ inv'[i].todo = Tail(inv[i].todo)
              /\ inv'[i].pc = IF Tail(inv[i].todo) = <<>> THEN "done" ELSE "attaching"
              /\ inv'[i].pc = "done" => inv'[i].resp = <<"success">>
              /\ UNCHANGED <<reaction_roles, disk>>]_vars
    /\ [](\A i \in Invs : inv[i].pc \in {"attaching", "sleeping"} =>
            /\ StrOf(inv[i].msg) \in DOMAIN reaction_roles
            /\ inv[i].todo # <<>>
            /\ \A n \in 1..Len(inv[i].todo) :
                 inv[i].todo[n] \in DOMAIN reaction_roles[StrOf(inv[i].msg)].emoji_map)
    /\ [](\A i \in Invs : (PastPersist(i) /\ inv[i].pc = "done" /\ ~SaveFailed(i)) =>
            /\ inv[i].resp = <<"success">>
            /\ StrOf(inv[i].msg) \in DOMAIN reaction_roles)

\* a registration of two keys ended in success with no reaction ever attached
C13_Witness ==
    \E i \in Invs :
      /\ inv[i].pc = "done" /\ inv[i].resp = <<"success">>
      /\ Cardinality(DOMAIN reaction_roles[StrOf(inv[i].msg)].emoji_map) = 2
      /\ nEvents = 0

\* C14, as claimed: once the save of an invocation has failed, its announcement
\* stays posted, and the handler of every later reaction event on that
\* announcement finds no record for it and changes no role set.
C14_Original ==
    [][(/\ handled' # NoEvent
        /\ \E i \in Invs : SaveFailed(i) /\ handled'.msg = inv[i].msg) =>
          /\ handled'.msg \in messages
          /\ StrOf(handled'.msg) \notin DOMAIN reaction_roles
          /\ calls' = <<>>
          /\ memberRoles' = memberRoles]_vars

\* the keys of todo are pairwise distinct
Distinct(todo) == \A a, b \in 1..Len(todo) : a # b => todo[a] # todo[b]

\* C15: the attachment loop of an invocation starts with the distinct keys of
\* its record, each once; a turn handles the first key left and attaches at most
\* one reaction; a turn that attached one is followed by the delay step, and
\* only the delay step drops its key; a turn that attached none drops its key;
\* and the loop, once entered, ends.
C15_Sequential ==
    /\ [][\A i \in Invs :
            /\ (inv[i].pc = "sent" /\ inv'[i].pc = "attaching") =>
                 /\ Distinct(inv'[i].todo)
                 /\ {inv'[i].todo[n] : n \in 1..Len(inv'[i].todo)}
                      = DOMAIN reaction_roles'[StrOf(inv[i].msg)].emoji_map
            /\ (inv[i].pc = "attaching" /\ StepOf(i)) =>
                 /\ Cardinality(reactions' \ reactions) <= 1
                 /\ \A r \in reactions' \ reactions :
                      /\ r.msg = inv[i].msg /\ r.user = BotUser
                      /\ emoji_key_from_payload(r.emoji) = Head(inv[i].todo)
                 /\ IF reactions' # reactions
                    THEN inv'[i].pc = "sleeping" /\ inv'[i].todo = inv[i].todo
                    ELSE inv'[i].pc # "sleeping" /\ inv'[i].todo = Tail(inv[i].todo)
            /\ (inv[i].pc = "sleeping" /\ StepOf(i)) =>
                 /\ reactions' = reactions
                 /\ inv'[i].todo = Tail(inv[i].todo)
                 /\ inv'[i].pc = IF Tail(inv[i].todo) = <<>> THEN "done" ELSE "attaching"]_vars
    /\ \A i \in Invs : (inv[i].pc = "attaching") ~> (inv[i].pc = "done")

\* a loop ended after two successful attachments
C15_Witness ==
    \E i \in Invs :
      /\ inv[i].pc = "done" /\ inv[i].resp = <<"success">>
      /\ Cardinality({r \in reactions : r.msg = inv[i].msg /\ r.user = BotUser}) = 2

\* the entries of a pairs text that are not blank, in input order
EntriesOf(pairs) ==
    SelectSeq(SplitOn(pairs, {",", "\n"}), LAMBDA raw : Strip(raw) # <<>>)

\* C16: the items a command parses are its entries in input order; the announcement
\* shows one line per item, in that order; and the emoji_map stored, in memory
\* and in the file, binds each key to the role of the last item with that key.
C16_LastWriteWins ==
    /\ (\E i \in Invs : inv[i].pc = "deferred") => \A pairs \in PairsInputs :
         LET parsed == parse_pairs(pairs)
             es == EntriesOf(pairs)
         IN parsed.ok =>
              /\ Len(parsed.pairs) = Len(es)
              /\ \A n \in 1..Len(es) :
                   parsed.pairs[n].render
                     = Join(Strip(SubSeq(Strip(es[n]), 1, FirstIn(Strip(es[n]), {"="}) - 1)))
    /\ \A i \in Invs : inv[i].pc \in {"sent", "attaching", "sleeping"} =>
         /\ Len(posts[inv[i].msg]) = Len(inv[i].items)
         /\ \A n \in 1..Len(inv[i].items) :
              posts[inv[i].msg][n] = <<inv[i].items[n].render, inv[i].items[n].role_id>>
    /\ \A i \in Invs : inv[i].pc \in {"attaching", "sleeping"} =>
         LET items == inv[i].items
             m == reaction_roles[StrOf(inv[i].msg)].emoji_map
         IN /\ DOMAIN m = {items[n].key : n \in 1..Len(items)}
            /\ \A n \in 1..Len(items) :
                 (\A later \in (n + 1)..Len(items) : items[later].key # items[n].key)
                   => m[items[n].key] = items[n].role_id
            /\ StrOf(inv[i].msg) \in DOMAIN disk
                 => disk[StrOf(inv[i].msg)].emoji_map = m

\* a record of one key stored for an announcement of two lines with that key
C16_Witness ==
    \E i \in Invs :
      /\ inv[i].pc = "attaching"
      /\ Len(posts[inv[i].msg]) = 2
      /\ inv[i].items[1].key = inv[i].items[2].key
      /\ disk[StrOf(inv[i].msg)].emoji_map[inv[i].items[1].key] = inv[i].items[2].role_id
      /\ inv[i].items[1].role_id # inv[i].items[2].role_id

\* invocation i has validated its input
HasValidated(i) == inv[i].pc \notin {"idle", "deferred", "aborted"}

\* C17, as claimed: an invocation with the permissions it needs and an entry
\* that does not hold exactly one "=" ends with the input-format error.
C17_Original ==
    \A i \in Invs :
      (HasValidated(i) /\ ~inv[i].lacks /\ inv[i].eqs \ {1} # {}) =>
        inv[i].pc = "done" /\ inv[i].resp = <<"value">>

\* C17, amended: an entry with no "=" is rejected, the error naming the first
\* such entry, and the invocation ends with the input-format error before
\* anything is posted; every entry accepted holds at least one "=" and is split
\* at its first "=", what follows belonging to the role part.
C17_AtLeastOneSeparator ==
    /\ \A i \in Invs :
         /\ (HasValidated(i) /\ ~inv[i].lacks /\ 0 \in inv[i].eqs) =>
              inv[i].pc = "done" /\ inv[i].resp = <<"value">> /\ inv[i].msg = 0
         /\ (HasValidated(i) /\ inv[i].resp \notin {<<"perm">>, <<"value">>}) =>
              0 \notin inv[i].eqs
    /\ (\E i \in Invs : inv[i].pc = "deferred") => \A pairs \in PairsInputs :
         LET parsed == parse_pairs(pairs)
             es == EntriesOf(pairs)
             none == {n \in 1..Len(es) : \A t \in 1..Len(es[n]) : es[n][t] # "="}
         IN /\ parsed.ok <=> none = {}
            /\ ~parsed.ok =>
                 parsed.err = Join(Strip(es[CHOOSE n \in none : \A o \in none : n <= o]))
            /\ parsed.ok => \A n \in 1..Len(es) :
                 LET item == Strip(es[n])
                     eq == CHOOSE t \in 1..Len(item) :
                             item[t] = "=" /\ \A b \in 1..(t - 1) : item[b] # "="
                 IN /\ parsed.labels[n][1] = Join(Strip(SubSeq(item, 1, eq - 1)))
                    /\ parsed.labels[n][2] = Join(Strip(SubSeq(item, eq + 1, Len(item))))

\* an entry with two "=" was accepted and its announcement posted
C17_Witness ==
    \E i \in Invs : 2 \in inv[i].eqs /\ inv[i].pc = "sent" /\ inv[i].msg \in DOMAIN posts

\* the text the platform writes for custom emoji e, animated or not
TextFormOf(e, animated) ==
    <<IF animated THEN "<a:" ELSE "<:", e.name, ":", StrOf(e.id), ">">>

\* the emojis of the claim: custom ones by id and name, unicode ones by their text
LogicalEmojis ==
    {[id |-> 7, name |-> "cool"], [id |-> 8, name |-> "gone"], [id |-> 10, name |-> "7"],
     [id |-> 0, name |-> Grin], [id |-> 0, name |-> "cool"]}

\* C18: for every emoji, the key normalize_emoji_key gives its text (the form
\* <:name:id> or <a:name:id> of a custom emoji, the literal of a unicode one,
\* with or without blanks around it) is the key emoji_key_from_payload gives its
\* event descriptor; and an event about the emoji of a reaction the bot seeded,
\* on the message it seeded it on, finds the role the record binds to it.
C18_SameKey ==
    /\ (\E i \in Invs : inv[i].pc = "deferred") =>
         \A e \in LogicalEmojis, pad \in {<<>>, <<" ">>} :
           IF e.id # 0
           THEN \A animated \in BOOLEAN :
                  normalize_emoji_key(pad \o TextFormOf(e, animated) \o pad)
                    = emoji_key_from_payload(e)
           ELSE normalize_emoji_key(pad \o <<e.name>> \o pad) = emoji_key_from_payload(e)
    /\ \A r \in reactions : r.user = BotUser =>
         /\ StrOf(r.msg) \in DOMAIN reaction_roles
         /\ emoji_key_from_payload(r.emoji) \in DOMAIN reaction_roles[StrOf(r.msg)].emoji_map
         /\ \A u \in Users : BoundRole(reaction_roles, Event("add", r.msg, u, r.emoji)) # 0

\* a member reacted with the custom emoji the bot seeded and the role was granted
C18_Witness ==
    /\ handled.kind = "add" /\ handled.user # BotUser /\ handled.emoji.id # 0
    /\ calls # <<>> /\ calls[1].result = "ok"
    /\ \E r \in reactions :
         r.user = BotUser /\ r.msg = handled.msg /\ r.emoji = handled.emoji

\* C19, as claimed: when a member who holds no role activates the verification
\* control and some role of the guild can be the configured one, the member
\* holds a role afterwards.
C19_Original ==
    [][(/\ handled'.kind = "verify"
        /\ guildRoles # {}
        /\ memberRoles[handled'.user] = {})
         => memberRoles'[handled'.user] # {}]_vars

\* the reactions the bot attached to message m
SeedsOn(m) == {r \in reactions : r.msg = m /\ r.user = BotUser}

====
